---- MODULE Spec2Model ----
(***************************************************************************)
(* Model of agents-md/scripts/setup_repo.py: the installer that fetches    *)
(* the pmenglund/agents templates, infers placeholder values from the      *)
(* target repository, and writes the rendered files.                       *)
(*                                                                         *)
(* Text is a sequence of atoms.  An atom is a word, the blank " ", the     *)
(* separators "=" and "/", or a placeholder: the atom "APP_NAME" inside a  *)
(* text stands for the characters {{APP_NAME}}.  An optional value (a      *)
(* Python None or a failed regex search) is a sequence of length 0 or 1.   *)
(* A dict is a sequence of <<key, value>> pairs in insertion order.        *)
(***************************************************************************)
EXTENDS Integers, Sequences, FiniteSets, TLC

VARIABLES
    pc,                     \* position in main()
    args,                   \* parsed command line
    env,                    \* the target repository as inference reads it
    agents_template,        \* text of _AGENTS.md once fetched
    explicit_replacements,  \* parse_key_value(args.set)
    inferred,               \* result of infer_replacements: [raised, values]
    replacements,           \* inferred overlaid with explicit_replacements
    plan,                   \* what print_placeholder_plan printed, per token
    missing_agents_tokens,  \* tokens the planner reported missing
    idx,                    \* index into sources in the render / write loops
    contents,               \* text of the template being rendered
    rendered_files,         \* sequence of [dest, contents]
    unresolved_by_file,     \* dest -> unresolved tokens of non-AGENTS files
    written,                \* destination files written so far (dest, contents)
    plans_made,             \* plans_dir.mkdir() was executed successfully
    would_lines,            \* number of "[DRY RUN] Would ..." lines printed
    phases,                 \* phases of main() executed so far, in order
    outcome,                \* why the run ended
    exit_code               \* process exit status, -1 while running

vars == <<pc, args, env, agents_template, explicit_replacements, inferred,
          replacements, plan, missing_agents_tokens, idx, contents,
          rendered_files, unresolved_by_file, written, plans_made, would_lines, phases,
          outcome, exit_code>>

-----------------------------------------------------------------------------
(* Bounds *)

MaxSet == 2        \* number of --set arguments on the command line
MaxPlans == 2      \* number of *.md files under plans/

-----------------------------------------------------------------------------
(* Optional values, text and dict helpers *)

None == <<>>
Some(x) == <<x>>
IsSome(o) == o # <<>>
Val(o) == o[1]

\* The names TOKEN_RE accepts between the braces.
TokenNames == {"APP_NAME", "LANGUAGE_NAME", "TRACKER_NAME", "TEST_COMMAND",
               "EPIC_ID", "TRACKER_ID", "EXTRA"}

\* Atoms TICKET_RE matches in full.
TicketAtoms == {"ABC-1", "DEF-3", "XYZ-2"}

RECURSIVE LStrip(_)
LStrip(t) == IF t # <<>> /\ t[1] = " " THEN LStrip(Tail(t)) ELSE t

RECURSIVE RStrip(_)
RStrip(t) ==
    IF t # <<>> /\ t[Len(t)] = " " THEN RStrip(SubSeq(t, 1, Len(t) - 1)) ELSE t

\* str.strip()
Strip(t) == RStrip(LStrip(t))

\* '"{{" in candidate'
HasBraces(t) == \E i \in DOMAIN t : t[i] \in TokenNames

\* TokenNames in the order sorted() gives them.
SortedTokenNames == <<"APP_NAME", "EPIC_ID", "EXTRA", "LANGUAGE_NAME",
                      "TEST_COMMAND", "TRACKER_ID", "TRACKER_NAME">>

\* unresolved_tokens(contents): sorted(set(TOKEN_RE.findall(text)))
unresolved_tokens(text) ==
    SelectSeq(SortedTokenNames,
              LAMBDA name : \E i \in DOMAIN text : text[i] = name)

\* contents.replace("{{token}}", value)
RECURSIVE StrReplace(_, _, _)
StrReplace(text, token, value) ==
    IF text = <<>> THEN <<>>
    ELSE IF text[1] = token
         THEN value \o StrReplace(Tail(text), token, value)
         ELSE <<text[1]>> \o StrReplace(Tail(text), token, value)

DictKeys(d) == {d[i][1] : i \in DOMAIN d}
DictHas(d, k) == k \in DictKeys(d)
DictGet(d, k) == d[CHOOSE i \in DOMAIN d : d[i][1] = k][2]

\* d[k] = v: an existing key keeps its position, a new one is appended.
DictPut(d, k, v) ==
    IF DictHas(d, k)
    THEN [i \in DOMAIN d |-> IF d[i][1] = k THEN <<k, v>> ELSE d[i]]
    ELSE Append(d, <<k, v>>)

\* setdefault that overwrites a key already present.
DictSetDefaultOverwrites(d, k, v) == DictPut(d, k, v)

\* d.setdefault(k, v)
DictSetDefault(d, k, v) == IF DictHas(d, k) THEN d ELSE Append(d, <<k, v>>)

\* d.update(e)
RECURSIVE DictUpdate(_, _)
DictUpdate(d, e) ==
    IF e = <<>> THEN d
    ELSE DictUpdate(DictPut(d, e[1][1], e[1][2]), Tail(e))

\* Sequences over S of length at most n.
SeqsUpTo(S, n) == UNION {[1..k -> S] : k \in 0..n}

-----------------------------------------------------------------------------
(* Module constants of setup_repo.py *)

Languages == {"go", "python"}
Workflows == {"beads", "github", "linear", "markdown", "template"}

LANGUAGE_SOURCES(language) ==
    IF language = "go" THEN "languages/GO.md" ELSE "languages/PYTHON.md"

WORKFLOW_SOURCES(workflow) ==
    CASE workflow = "beads" -> "workflows/BEADS.md"
      [] workflow = "github" -> "workflows/GITHUB.md"
      [] workflow = "linear" -> "workflows/LINEAR.md"
      [] workflow = "markdown" -> "workflows/MARKDOWN.md"
      [] OTHER -> "workflows/TEMPLATE.md"

WORKFLOW_TRACKER_NAME(workflow) ==
    CASE workflow = "beads" -> <<"Beads">>
      [] workflow = "github" -> <<"GitHub Issues">>
      [] workflow = "linear" -> <<"Linear">>
      [] workflow = "markdown" -> <<"Markdown tracker">>
      [] OTHER -> <<"Linear">>

LANGUAGE_DISPLAY_NAME(language) ==
    IF language = "go" THEN <<"Go">> ELSE <<"Python">>

\* collect_sources: (source path, destination name) in this order.
collect_sources(language, workflow) ==
    << <<"_AGENTS.md", "AGENTS.md">>,
       <<"APP.md", "APP.md">>,
       <<"PLANS.md", "PLANS.md">>,
       <<LANGUAGE_SOURCES(language), "LANGUAGE.md">>,
       <<WORKFLOW_SOURCES(workflow), "WORKFLOW.md">> >>

Dests == {"AGENTS.md", "APP.md", "PLANS.md", "LANGUAGE.md", "WORKFLOW.md"}

-----------------------------------------------------------------------------
(* The target directory as the extractors see it.  A file record has a     *)
(* field st: "absent", "unreadable" (exists, but reading raises OSError or *)
(* UnicodeDecodeError, or it is not a regular file), "empty" or "ok"; the  *)
(* other fields are what the code's regex searches and parsers find in     *)
(* the text.                                                               *)

\* read_text_if_exists(path) followed by the caller's truth test of the text.
ReadText(f) == f.st = "ok"

\* path.exists()
Exists(f) == f.st # "absent"

\* A function that returned x, and one that raised an uncaught exception.
Ret(x) == [raised |-> FALSE, val |-> x]
Raised == [raised |-> TRUE, val |-> None]

\* infer_from_existing_agents(target)
infer_from_existing_agents(e) ==
    LET a == e.agents
        v1 == IF IsSome(a.lang)
              THEN DictPut(<<>>, "LANGUAGE_NAME", Strip(Val(a.lang)))
              ELSE <<>>
        candidate == Strip(Val(a.app))
        v2 == IF IsSome(a.app) /\ candidate # <<>> /\ ~HasBraces(candidate)
              THEN DictPut(v1, "APP_NAME", candidate)
              ELSE v1
        v3 == IF IsSome(a.tracker)
              THEN DictPut(v2, "TRACKER_NAME", Strip(Val(a.tracker)))
              ELSE v2
        v4 == IF IsSome(a.test)
              THEN DictPut(v3, "TEST_COMMAND", Strip(Val(a.test)))
              ELSE v3
        v5 == IF IsSome(a.epic) THEN DictPut(v4, "EPIC_ID", <<Val(a.epic)>>) ELSE v4
        v6 == IF IsSome(a.tid) THEN DictPut(v5, "TRACKER_ID", <<Val(a.tid)>>) ELSE v5
    IN  IF ~ReadText(a) THEN <<>> ELSE v6

\* module.rstrip("/")
RECURSIVE RStripSlash(_)
RStripSlash(t) ==
    IF t # <<>> /\ t[Len(t)] = "/"
    THEN RStripSlash(SubSeq(t, 1, Len(t) - 1))
    ELSE t

\* path.split("/")[-1]
RECURSIVE LastSegment(_)
LastSegment(t) ==
    IF \E i \in DOMAIN t : t[i] = "/" THEN LastSegment(Tail(t)) ELSE t

\* The manifest name lookups of infer_app_name: "raise", "none" or "name".
PackageJsonName(f) ==
    IF ~ReadText(f) \/ f.shape = "invalid" THEN "none"
    ELSE IF f.shape = "notobject" THEN "raise"
    ELSE IF IsSome(f.name) /\ Strip(Val(f.name)) # <<>> THEN "name" ELSE "none"

TomlName(f) ==
    IF ~ReadText(f) \/ f.shape = "invalid" \/ f.table = "missing" THEN "none"
    ELSE IF f.table = "nottable" THEN "raise"
    ELSE IF IsSome(f.name) /\ Strip(Val(f.name)) # <<>> THEN "name" ELSE "none"

\* infer_app_name(target)
infer_app_name(e) ==
    IF ReadText(e.appMd) /\ IsSome(e.appMd.heading)
       /\ ~HasBraces(Val(e.appMd.heading))
    THEN Ret(Some(Strip(Val(e.appMd.heading))))
    ELSE IF PackageJsonName(e.packageJson) = "raise" THEN Raised
    ELSE IF PackageJsonName(e.packageJson) = "name"
    THEN Ret(Some(Strip(Val(e.packageJson.name))))
    ELSE IF TomlName(e.pyproject) = "raise" THEN Raised
    ELSE IF TomlName(e.pyproject) = "name"
    THEN Ret(Some(Strip(Val(e.pyproject.name))))
    ELSE IF TomlName(e.cargo) = "raise" THEN Raised
    ELSE IF TomlName(e.cargo) = "name"
    THEN Ret(Some(Strip(Val(e.cargo.name))))
    ELSE IF ReadText(e.goMod) /\ IsSome(e.goMod.module)
    THEN Ret(Some(LastSegment(RStripSlash(Val(e.goMod.module)))))
    ELSE IF e.targetName # <<>> THEN Ret(Some(e.targetName))
    ELSE Ret(None)

\* infer_language_name(target, language_choice)
infer_language_name(e, language_choice) ==
    IF ReadText(e.languageMd) /\ e.languageMd.go THEN <<"Go">>
    ELSE IF ReadText(e.languageMd) /\ e.languageMd.python THEN <<"Python">>
    ELSE IF Exists(e.goMod) THEN <<"Go">>
    ELSE IF Exists(e.pyproject) \/ e.requirementsTxt THEN <<"Python">>
    ELSE LANGUAGE_DISPLAY_NAME(language_choice)

\* infer_tracker_name(target, workflow_choice)
infer_tracker_name(e, workflow_choice) ==
    LET w == e.workflowMd IN
    IF ReadText(w) /\ "Linear" \in w.words THEN <<"Linear">>
    ELSE IF ReadText(w) /\ "GitHub" \in w.words THEN <<"GitHub Issues">>
    ELSE IF ReadText(w) /\ "Beads" \in w.words THEN <<"Beads">>
    ELSE IF ReadText(w) /\ "Markdown" \in w.words THEN <<"Markdown tracker">>
    ELSE IF e.dotGithub THEN <<"GitHub Issues">>
    ELSE WORKFLOW_TRACKER_NAME(workflow_choice)

\* infer_test_command(target, language_choice)
infer_test_command(e, language_choice) ==
    LET candidate == Strip(Val(e.appMd.runtests)) IN
    IF ReadText(e.appMd) /\ IsSome(e.appMd.runtests)
       /\ candidate # <<>> /\ ~HasBraces(candidate)
    THEN Ret(Some(candidate))
    ELSE IF ReadText(e.makefile) /\ e.makefile.testTarget
    THEN Ret(Some(<<"make test">>))
    ELSE IF ReadText(e.packageJson) /\ e.packageJson.shape = "notobject"
    THEN Raised
    ELSE IF ReadText(e.packageJson) /\ e.packageJson.shape = "object"
            /\ e.packageJson.scripts = "teststr"
    THEN Ret(Some(<<"npm test">>))
    ELSE IF Exists(e.goMod) THEN Ret(Some(<<"go test ./...">>))
    ELSE IF Exists(e.pyproject) \/ e.pytestIni THEN Ret(Some(<<"pytest">>))
    ELSE IF language_choice = "go" THEN Ret(Some(<<"go test ./...">>))
    ELSE IF language_choice = "python" THEN Ret(Some(<<"pytest">>))
    ELSE Ret(None)

\* The stems of sorted(plans_dir.glob("*.md")) that TICKET_RE matches in full.
TicketStems(stems) == SelectSeq(stems, LAMBDA s : s \in TicketAtoms)

\* infer_ids in which a plans/ file name sets the tracker identifier too.
infer_ids_plans_both(e) ==
    LET tickets == IF e.plans.kind = "dir" THEN TicketStems(e.plans.stems) ELSE <<>>
        v1 == IF tickets # <<>>
              THEN DictPut(DictPut(<<>>, "EPIC_ID", <<tickets[1]>>),
                           "TRACKER_ID", <<tickets[1]>>)
              ELSE <<>>
        branch == IF e.git.rc = "ok" THEN e.git.branch ELSE None
        v2 == IF IsSome(branch)
              THEN DictSetDefault(DictSetDefault(v1, "TRACKER_ID", <<Val(branch)>>),
                                  "EPIC_ID", <<Val(branch)>>)
              ELSE v1
        v3 == IF ~DictHas(v2, "TRACKER_ID") /\ ReadText(e.agents)
                 /\ IsSome(e.agents.first)
              THEN DictPut(v2, "TRACKER_ID", <<Val(e.agents.first)>>)
              ELSE v2
    IN  v3

\* infer_ids(target)
infer_ids(e) ==
    LET tickets == IF e.plans.kind = "dir" THEN TicketStems(e.plans.stems) ELSE <<>>
        v1 == IF tickets # <<>> THEN DictPut(<<>>, "EPIC_ID", <<tickets[1]>>) ELSE <<>>
        branch == IF e.git.rc = "ok" THEN e.git.branch ELSE None
        v2 == IF IsSome(branch)
              THEN DictSetDefault(DictSetDefault(v1, "TRACKER_ID", <<Val(branch)>>),
                                  "EPIC_ID", <<Val(branch)>>)
              ELSE v1
        v3 == IF ~DictHas(v2, "TRACKER_ID") /\ ReadText(e.agents)
                 /\ IsSome(e.agents.first)
              THEN DictPut(v2, "TRACKER_ID", <<Val(e.agents.first)>>)
              ELSE v2
    IN  v3

\* {k: v for k, v in d.items() if v}
Truthy(d) == SelectSeq(d, LAMBDA kv : kv[2] # <<>>)

\* infer_replacements(target, language_choice, workflow_choice)
infer_replacements(e, language_choice, workflow_choice) ==
    LET v0 == DictUpdate(<<>>, infer_from_existing_agents(e))
        app_name == infer_app_name(e)
        v1 == IF IsSome(app_name.val) /\ Val(app_name.val) # <<>>
              THEN DictSetDefault(v0, "APP_NAME", Val(app_name.val))
              ELSE v0
        v2 == DictSetDefault(v1, "LANGUAGE_NAME",
                             infer_language_name(e, language_choice))
        v3 == DictSetDefault(v2, "TRACKER_NAME",
                             infer_tracker_name(e, workflow_choice))
        test_command == infer_test_command(e, language_choice)
        v4 == IF IsSome(test_command.val) /\ Val(test_command.val) # <<>>
              THEN DictSetDefault(v3, "TEST_COMMAND", Val(test_command.val))
              ELSE v3
        v5 == DictUpdate(v4, Truthy(infer_ids(e)))
    IN  IF app_name.raised \/ test_command.raised
        THEN [raised |-> TRUE, values |-> <<>>]
        ELSE [raised |-> FALSE, values |-> v5]

-----------------------------------------------------------------------------
(* Command line and rendering helpers of main() *)

\* Position of the first "=" of a --set item, 0 if it has none.
FirstEq(item) ==
    IF \E i \in DOMAIN item : item[i] = "="
    THEN CHOOSE i \in DOMAIN item :
            item[i] = "=" /\ \A j \in 1..(i - 1) : item[j] # "="
    ELSE 0

\* key, value = item.split("=", 1); key = key.strip()
ItemKey(item) == Strip(SubSeq(item, 1, FirstEq(item) - 1))
ItemValue(item) == SubSeq(item, FirstEq(item) + 1, Len(item))

\* parse_key_value(items); a key is one atom after strip().
RECURSIVE parse_key_value_from(_, _)
parse_key_value_from(pairs, items) ==
    IF items = <<>> THEN [raised |-> FALSE, pairs |-> pairs]
    ELSE IF FirstEq(items[1]) = 0 \/ ItemKey(items[1]) = <<>>
    THEN [raised |-> TRUE, pairs |-> <<>>]
    ELSE parse_key_value_from(
             DictPut(pairs, ItemKey(items[1])[1], ItemValue(items[1])),
             Tail(items))

parse_key_value(items) == parse_key_value_from(<<>>, items)

\* The value print_placeholder_plan shows: replacements.get(token, "").strip()
PlanValue(repl, token) ==
    IF DictHas(repl, token) THEN Strip(DictGet(repl, token)) ELSE <<>>

\* print_placeholder_plan: the printed lines and the returned missing list.
print_placeholder_plan(tokens, repl) ==
    [lines |-> [i \in DOMAIN tokens |-> <<tokens[i], PlanValue(repl, tokens[i])>>],
     missing |-> SelectSeq(tokens, LAMBDA t : PlanValue(repl, t) = <<>>)]

\* for token, value in replacements.items(): contents = contents.replace(...)
RECURSIVE Substitute(_, _)
Substitute(text, repl) ==
    IF repl = <<>> THEN text
    ELSE Substitute(StrReplace(text, repl[1][1], repl[1][2]), Tail(repl))

\* (target / dest).exists()
DestExists(e, dest) ==
    CASE dest = "AGENTS.md" -> Exists(e.agents)
      [] dest = "APP.md" -> Exists(e.appMd)
      [] dest = "LANGUAGE.md" -> Exists(e.languageMd)
      [] dest = "WORKFLOW.md" -> Exists(e.workflowMd)
      [] OTHER -> e.plansMd

\* existing = [dest for _, dest in sources if (target / dest).exists()]
ExistingDests(e, sources) ==
    SelectSeq([i \in DOMAIN sources |-> sources[i][2]],
              LAMBDA dest : DestExists(e, dest))

\* The overwrite gate left out.
OverwriteNeverBlocked(existing, force) == FALSE

\* 'if existing and not args.force'
OverwriteBlocked(existing, force) == existing # <<>> /\ ~force

\* The texts fetch_text can return for a source path of the remote repository.
RemoteTexts(source_path) ==
    CASE source_path = "_AGENTS.md" ->
             { <<"LANGUAGE_NAME", " ", "APP_NAME">>,
               <<"APP_NAME", " ", "EXTRA", " ", "APP_NAME">> }
      [] source_path = "APP.md" -> { <<"APP_NAME", " ", "TEST_COMMAND", "EXTRA">> }
      [] source_path = "PLANS.md" -> { <<"plans">> }
      [] source_path \in {"languages/GO.md", "languages/PYTHON.md"} ->
             { <<"LANGUAGE_NAME">> }
      [] OTHER -> { <<"TRACKER_NAME", " ", "TRACKER_ID">> }

-----------------------------------------------------------------------------
(* Target directories *)

NoAgents(state) ==
    [st |-> state, lang |-> None, app |-> None, tracker |-> None,
     test |-> None, epic |-> None, tid |-> None, first |-> None]

NoJson(state) == [st |-> state, shape |-> "invalid", name |-> None, scripts |-> "missing"]
NoToml(state) == [st |-> state, shape |-> "invalid", table |-> "missing", name |-> None]

\* An empty directory named "repo" outside any git work tree.
Base ==
    [agents |-> NoAgents("absent"),
     appMd |-> [st |-> "absent", heading |-> None, runtests |-> None],
     languageMd |-> [st |-> "absent", go |-> FALSE, python |-> FALSE],
     workflowMd |-> [st |-> "absent", words |-> {}],
     plansMd |-> FALSE,
     packageJson |-> NoJson("absent"),
     pyproject |-> NoToml("absent"),
     cargo |-> NoToml("absent"),
     goMod |-> [st |-> "absent", module |-> None],
     requirementsTxt |-> FALSE,
     pytestIni |-> FALSE,
     dotGithub |-> FALSE,
     makefile |-> [st |-> "absent", testTarget |-> FALSE],
     plans |-> [kind |-> "absent", stems |-> <<>>],
     git |-> [rc |-> "called_process_error", branch |-> None],
     targetName |-> <<"repo">>]

\* What the six searches of infer_from_existing_agents and the ticket search
\* of infer_ids can find in one AGENTS.md: a text in which the epic or the
\* tracker pattern matches also holds a ticket ID.
AgentsIds ==
    { [epic |-> None, tid |-> None, first |-> None],
      [epic |-> None, tid |-> None, first |-> Some("XYZ-2")],
      [epic |-> Some("ABC-1"), tid |-> None, first |-> Some("ABC-1")],
      [epic |-> None, tid |-> Some("XYZ-2"), first |-> Some("XYZ-2")],
      [epic |-> Some("ABC-1"), tid |-> Some("XYZ-2"), first |-> Some("ABC-1")],
      [epic |-> Some("ABC-1"), tid |-> Some("XYZ-2"), first |-> Some("XYZ-2")] }

AgentsDocs ==
    { [st |-> "ok", lang |-> l, app |-> a, tracker |-> t, test |-> c,
       epic |-> i.epic, tid |-> i.tid, first |-> i.first] :
        l \in {None, Some(<<" ">>), Some(<<" ", "Rust", " ">>)},
        a \in {None, Some(<<" ">>), Some(<<"oldapp">>), Some(<<"APP_NAME">>)},
        t \in {None, Some(<<" ">>), Some(<<"Jira">>)},
        c \in {None, Some(<<"tox">>)},
        i \in AgentsIds }
    \cup {NoAgents("absent"), NoAgents("unreadable"), NoAgents("empty")}

\* File stems under plans/, in sorted() order.
AllStems == <<"DEF-3", "README", "XYZ-2">>
StemRank(s) == CHOOSE i \in DOMAIN AllStems : AllStems[i] = s

PlansStates ==
    { [kind |-> "absent", stems |-> <<>>], [kind |-> "file", stems |-> <<>>] }
    \cup { [kind |-> "dir", stems |-> q] :
             q \in { r \in SeqsUpTo({AllStems[i] : i \in DOMAIN AllStems}, MaxPlans) :
                       \A i \in 1..(Len(r) - 1) : StemRank(r[i]) < StemRank(r[i + 1]) } }

\* git rev-parse --abbrev-ref HEAD: the two caught failures, or a branch name
\* in which TICKET_RE finds nothing or a ticket.
GitStates ==
    { [rc |-> "called_process_error", branch |-> None],
      [rc |-> "file_not_found", branch |-> None],
      [rc |-> "ok", branch |-> None],
      [rc |-> "ok", branch |-> Some("ABC-1")],
      [rc |-> "ok", branch |-> Some("DEF-3")] }

AppDocs ==
    { [st |-> "absent", heading |-> None, runtests |-> None],
      [st |-> "unreadable", heading |-> None, runtests |-> None],
      [st |-> "ok", heading |-> None, runtests |-> Some(<<" ">>)],
      [st |-> "ok", heading |-> Some(<<"APP_NAME">>), runtests |-> Some(<<"TEST_COMMAND">>)],
      [st |-> "ok", heading |-> Some(<<"docapp", " ">>), runtests |-> Some(<<"just test">>)] }

PackageJsons ==
    { NoJson("absent"), NoJson("unreadable"), NoJson("ok"),
      [st |-> "ok", shape |-> "notobject", name |-> None, scripts |-> "missing"],
      [st |-> "ok", shape |-> "object", name |-> None, scripts |-> "nondict"],
      [st |-> "ok", shape |-> "object", name |-> Some(<<" ">>), scripts |-> "notest"],
      [st |-> "ok", shape |-> "object", name |-> Some(<<"widget">>), scripts |-> "teststr"] }

Tomls(n) ==
    { NoToml("absent"), NoToml("unreadable"), NoToml("ok"),
      [st |-> "ok", shape |-> "ok", table |-> "missing", name |-> None],
      [st |-> "ok", shape |-> "ok", table |-> "nottable", name |-> None],
      [st |-> "ok", shape |-> "ok", table |-> "table", name |-> None],
      [st |-> "ok", shape |-> "ok", table |-> "table", name |-> Some(<<n>>)] }

GoMods ==
    { [st |-> "absent", module |-> None],
      [st |-> "unreadable", module |-> None],
      [st |-> "ok", module |-> None],
      [st |-> "ok", module |-> Some(<<"/">>)],
      [st |-> "ok", module |-> Some(<<"example.com", "/", "gomod", "/">>)] }

LanguageDocs ==
    { [st |-> "absent", go |-> FALSE, python |-> FALSE],
      [st |-> "unreadable", go |-> FALSE, python |-> FALSE],
      [st |-> "ok", go |-> FALSE, python |-> FALSE],
      [st |-> "ok", go |-> FALSE, python |-> TRUE],
      [st |-> "ok", go |-> TRUE, python |-> TRUE] }

WorkflowDocs ==
    { [st |-> "absent", words |-> {}],
      [st |-> "unreadable", words |-> {}],
      [st |-> "ok", words |-> {}],
      [st |-> "ok", words |-> {"Markdown"}],
      [st |-> "ok", words |-> {"Beads", "GitHub"}],
      [st |-> "ok", words |-> {"Linear", "GitHub"}] }

Makefiles ==
    { [st |-> "absent", testTarget |-> FALSE],
      [st |-> "unreadable", testTarget |-> FALSE],
      [st |-> "ok", testTarget |-> FALSE],
      [st |-> "ok", testTarget |-> TRUE] }

\* AGENTS.md as a previous run with every placeholder supplied left it.
PriorAgents ==
    [st |-> "ok", lang |-> Some(<<" ", "Rust", " ">>), app |-> Some(<<"oldapp">>),
     tracker |-> Some(<<"Jira">>), test |-> Some(<<"tox">>),
     epic |-> Some("ABC-1"), tid |-> Some("XYZ-2"), first |-> Some("ABC-1")]

\* AGENTS.md copied from the template by hand, its placeholders still in it.
UnfilledAgents ==
    [st |-> "ok", lang |-> Some(<<"LANGUAGE_NAME">>), app |-> Some(<<"APP_NAME">>),
     tracker |-> Some(<<" ">>), test |-> None,
     epic |-> None, tid |-> None, first |-> None]

\* Target directories of the complete runs.
MainEnvs ==
    { Base,
      [Base EXCEPT !.agents = PriorAgents,
                   !.appMd = [st |-> "ok", heading |-> Some(<<"docapp", " ">>),
                              runtests |-> Some(<<"just test">>)],
                   !.languageMd = [st |-> "ok", go |-> FALSE, python |-> TRUE],
                   !.workflowMd = [st |-> "ok", words |-> {"Linear", "GitHub"}],
                   !.plansMd = TRUE,
                   !.plans = [kind |-> "dir", stems |-> <<"DEF-3">>],
                   !.git = [rc |-> "ok", branch |-> None]],
      [Base EXCEPT !.agents = UnfilledAgents],
      [Base EXCEPT !.packageJson =
                       [st |-> "ok", shape |-> "notobject", name |-> None,
                        scripts |-> "missing"]],
      [Base EXCEPT !.packageJson =
                       [st |-> "ok", shape |-> "object", name |-> Some(<<"widget">>),
                        scripts |-> "teststr"],
                   !.git = [rc |-> "ok", branch |-> Some("ABC-1")]],
      [Base EXCEPT !.plansMd = TRUE, !.plans = [kind |-> "file", stems |-> <<>>]] }

\* --set arguments: a plain pair, a key and a value made of blanks around the
\* name, an empty value, a value that is itself a placeholder, a value with a
\* leading blank and a second "=", and the two malformed shapes.
SetItems ==
    { <<"APP_NAME", "=", "widget2">>,
      <<" ", "APP_NAME", " ", "=", " ">>,
      <<"EXTRA", "=">>,
      <<"EXTRA", "=", " ", "x", "=", "y">>,
      <<"APP_NAME", "=", "EXTRA">>,
      <<"novalue">>,
      <<" ", "=", "x">> }

ArgSets ==
    { [target_ok |-> ok, set |-> items, language |-> l, workflow |-> "linear",
       force |-> f, dry_run |-> d, infer_only |-> i] :
        ok \in BOOLEAN, items \in SeqsUpTo(SetItems, MaxSet), l \in Languages,
        f \in BOOLEAN, d \in BOOLEAN, i \in BOOLEAN }

-----------------------------------------------------------------------------
(* main() *)

sources == collect_sources(args.language, args.workflow)

\* 'return code' from main(), or an uncaught exception (exit status 1).
Finish(code, why) ==
    /\ pc' = "done"
    /\ exit_code' = code
    /\ outcome' = why

Init ==
    /\ pc = "parse_args"
    /\ args \in ArgSets
    /\ env \in MainEnvs
    /\ ~args.target_ok => env = Base   \* a missing target holds no files
    /\ agents_template = None
    /\ explicit_replacements = <<>>
    /\ inferred = [raised |-> FALSE, values |-> <<>>]
    /\ replacements = <<>>
    /\ plan = <<>>
    /\ missing_agents_tokens = <<>>
    /\ idx = 1
    /\ contents = <<>>
    /\ rendered_files = <<>>
    /\ unresolved_by_file = <<>>
    /\ written = <<>>
    /\ plans_made = FALSE
    /\ would_lines = 0
    /\ phases = <<>>
    /\ outcome = "running"
    /\ exit_code = -1

\* Lines 360-371: the target directory check, then parse_key_value(args.set).
ParseArgs ==
    /\ pc = "parse_args"
    /\ phases' = Append(phases, "parse_args")
    /\ IF ~args.target_ok
       THEN Finish(1, "bad_target") /\ UNCHANGED explicit_replacements
       ELSE IF parse_key_value(args.set).raised
       THEN Finish(1, "bad_set") /\ UNCHANGED explicit_replacements
       ELSE /\ explicit_replacements' = parse_key_value(args.set).pairs
            /\ pc' = "fetch_primary"
            /\ UNCHANGED <<exit_code, outcome>>
    /\ UNCHANGED <<args, env, agents_template, inferred, replacements, plan,
                   missing_agents_tokens, idx, rendered_files,
                   unresolved_by_file, written, plans_made, would_lines, contents>>

\* Lines 373-374: fetch_text returns the text of _AGENTS.md.
FetchPrimary ==
    /\ pc = "fetch_primary"
    /\ \E text \in RemoteTexts("_AGENTS.md") : agents_template' = Some(text)
    /\ phases' = Append(phases, "fetch_primary")
    /\ pc' = "infer"
    /\ UNCHANGED <<args, env, explicit_replacements, inferred, replacements, plan,
                   missing_agents_tokens, idx, rendered_files,
                   unresolved_by_file, written, plans_made, would_lines, contents,
                   outcome, exit_code>>

\* Lines 375-377: fetch_text raises RuntimeError.
FetchPrimaryFails ==
    /\ pc = "fetch_primary"
    /\ phases' = Append(phases, "fetch_primary")
    /\ Finish(1, "fetch_error")
    /\ UNCHANGED <<args, env, agents_template, explicit_replacements, inferred,
                   replacements, plan, missing_agents_tokens, idx,
                   rendered_files, unresolved_by_file, written, plans_made,
                   would_lines, contents>>

\* The overlay the wrong way round: inferred values over the --set pairs.
MergeInferredLast(inferred_values, explicit) ==
    DictUpdate(DictUpdate(<<>>, explicit), inferred_values)

\* replacements = dict(inferred); replacements.update(explicit_replacements)
Merge(inferred_values, explicit) == DictUpdate(DictUpdate(<<>>, inferred_values), explicit)

\* Lines 379-382: inference and the overlay of the --set pairs.  An exception
\* raised inside infer_replacements is caught nowhere and ends the process.
Infer ==
    /\ pc = "infer"
    /\ phases' = Append(phases, "infer")
    /\ inferred' = infer_replacements(env, args.language, args.workflow)
    /\ IF inferred'.raised
       THEN Finish(1, "crash") /\ UNCHANGED replacements
       ELSE /\ replacements' = Merge(inferred'.values, explicit_replacements)
            /\ pc' = "plan"
            /\ UNCHANGED <<exit_code, outcome>>
    /\ UNCHANGED <<args, env, agents_template, explicit_replacements, plan,
                   missing_agents_tokens, idx, rendered_files,
                   unresolved_by_file, written, plans_made, would_lines, contents>>

\* Line 384: print_placeholder_plan(agents_tokens, replacements)
Plan ==
    /\ pc = "plan"
    /\ phases' = Append(phases, "plan")
    /\ LET p == print_placeholder_plan(unresolved_tokens(Val(agents_template)),
                                       replacements)
       IN  plan' = p.lines /\ missing_agents_tokens' = p.missing
    /\ pc' = "after_plan"
    /\ UNCHANGED <<args, env, agents_template, explicit_replacements, inferred,
                   replacements, idx, rendered_files, unresolved_by_file,
                   written, plans_made, would_lines, contents, outcome, exit_code>>

\* Lines 385-390: --infer-only reports the missing placeholders and returns 0.
InferOnlyStop ==
    /\ pc = "after_plan"
    /\ args.infer_only
    /\ phases' = Append(phases, "infer_only_stop")
    /\ Finish(0, "infer_only")
    /\ UNCHANGED <<args, env, agents_template, explicit_replacements, inferred,
                   replacements, plan, missing_agents_tokens, idx,
                   rendered_files, unresolved_by_file, written, plans_made,
                   would_lines, contents>>

\* The mandatory gate evaluated in --infer-only runs as well.
MandatoryGateBeforeInferOnly ==
    /\ pc = "after_plan"
    /\ phases' = Append(phases, "mandatory_gate")
    /\ IF missing_agents_tokens # <<>>
       THEN Finish(1, "missing_tokens")
       ELSE pc' = "overwrite_gate" /\ UNCHANGED <<exit_code, outcome>>
    /\ UNCHANGED <<args, env, agents_template, explicit_replacements, inferred,
                   replacements, plan, missing_agents_tokens, idx,
                   rendered_files, unresolved_by_file, written, plans_made,
                   would_lines, contents>>

\* Lines 392-398: missing required placeholders end the run.
MandatoryGate ==
    /\ pc = "after_plan"
    /\ ~args.infer_only
    /\ phases' = Append(phases, "mandatory_gate")
    /\ IF missing_agents_tokens # <<>>
       THEN Finish(1, "missing_tokens")
       ELSE pc' = "overwrite_gate" /\ UNCHANGED <<exit_code, outcome>>
    /\ UNCHANGED <<args, env, agents_template, explicit_replacements, inferred,
                   replacements, plan, missing_agents_tokens, idx,
                   rendered_files, unresolved_by_file, written, plans_made,
                   would_lines, contents>>

\* Lines 400-409: existing destinations end the run unless --force is given.
OverwriteGate ==
    /\ pc = "overwrite_gate"
    /\ phases' = Append(phases, "overwrite_gate")
    /\ IF OverwriteBlocked(ExistingDests(env, sources), args.force)
       THEN Finish(1, "destination_exists") /\ UNCHANGED idx
       ELSE pc' = "fetch" /\ idx' = 1 /\ UNCHANGED <<exit_code, outcome>>
    /\ UNCHANGED <<args, env, agents_template, explicit_replacements, inferred,
                   replacements, plan, missing_agents_tokens, rendered_files,
                   unresolved_by_file, written, plans_made, would_lines, contents>>

\* Lines 412-413: the text of _AGENTS.md fetched earlier is reused.
UsePrimary ==
    /\ pc = "fetch"
    /\ sources[idx][1] = "_AGENTS.md"
    /\ contents' = Val(agents_template)
    /\ pc' = "render"
    /\ UNCHANGED <<args, env, agents_template, explicit_replacements, inferred,
                   replacements, plan, missing_agents_tokens, idx,
                   rendered_files, unresolved_by_file, written, plans_made,
                   would_lines, phases, outcome, exit_code>>

\* Lines 415-416: fetch_text returns the text of one of the other templates.
FetchRemaining ==
    /\ pc = "fetch"
    /\ sources[idx][1] # "_AGENTS.md"
    /\ \E text \in RemoteTexts(sources[idx][1]) : contents' = text
    /\ phases' = Append(phases, "fetch_remaining")
    /\ pc' = "render"
    /\ UNCHANGED <<args, env, agents_template, explicit_replacements, inferred,
                   replacements, plan, missing_agents_tokens, idx,
                   rendered_files, unresolved_by_file, written, plans_made,
                   would_lines, outcome, exit_code>>

\* A failed fetch that is swallowed: the loop goes on without the file.
FetchRemainingSkips ==
    /\ pc = "fetch"
    /\ sources[idx][1] # "_AGENTS.md"
    /\ phases' = Append(phases, "fetch_remaining")
    /\ idx' = idx + 1
    /\ pc' = IF idx < Len(sources) THEN "fetch" ELSE "output"
    /\ UNCHANGED <<args, env, agents_template, explicit_replacements, inferred,
                   replacements, plan, missing_agents_tokens, contents,
                   rendered_files, unresolved_by_file, written, plans_made,
                   would_lines, outcome, exit_code>>

\* Lines 417-419: fetch_text raises RuntimeError.
FetchRemainingFails ==
    /\ pc = "fetch"
    /\ sources[idx][1] # "_AGENTS.md"
    /\ phases' = Append(phases, "fetch_remaining")
    /\ Finish(1, "fetch_error")
    /\ UNCHANGED <<args, env, agents_template, explicit_replacements, inferred,
                   replacements, plan, missing_agents_tokens, idx, contents,
                   rendered_files, unresolved_by_file, written, plans_made,
                   would_lines>>

\* Swallows the render gate: AGENTS.md is never refused.
AgentsUnresolvedIgnored(dest_name, unresolved) == FALSE

\* 'if dest_name == "AGENTS.md" and unresolved'
AgentsUnresolved(dest_name, unresolved) ==
    dest_name = "AGENTS.md" /\ unresolved # <<>>

\* Lines 421-435: substitution, the scan for leftover placeholders, and the
\* hard failure when AGENTS.md has any.
Render ==
    /\ pc = "render"
    /\ phases' = Append(phases, "render")
    /\ LET dest_name == sources[idx][2]
           text == Substitute(contents, replacements)
           unresolved == unresolved_tokens(text)
       IN  /\ contents' = text
           /\ IF AgentsUnresolved(dest_name, unresolved)
              THEN /\ Finish(1, "unresolved_agents")
                   /\ UNCHANGED <<idx, rendered_files, unresolved_by_file>>
              ELSE /\ unresolved_by_file' =
                          IF unresolved # <<>> /\ dest_name # "AGENTS.md"
                          THEN DictPut(unresolved_by_file, dest_name, unresolved)
                          ELSE unresolved_by_file
                   /\ rendered_files' = Append(rendered_files, <<dest_name, text>>)
                   /\ idx' = idx + 1
                   /\ pc' = IF idx < Len(sources) THEN "fetch" ELSE "output"
                   /\ UNCHANGED <<exit_code, outcome>>
    /\ UNCHANGED <<args, env, agents_template, explicit_replacements, inferred,
                   replacements, plan, missing_agents_tokens, written,
                   plans_made, would_lines>>

\* Lines 439-444: --dry-run prints one line per rendered file.
DryRun ==
    /\ pc = "output"
    /\ args.dry_run
    /\ phases' = Append(phases, "dry_run_report")
    /\ would_lines' = Len(rendered_files)
    /\ pc' = "report"
    /\ UNCHANGED <<args, env, agents_template, explicit_replacements, inferred,
                   replacements, plan, missing_agents_tokens, idx, contents,
                   rendered_files, unresolved_by_file, written, plans_made,
                   outcome, exit_code>>

\* Line 446: plans_dir.mkdir(parents=True, exist_ok=True); FileExistsError
\* when plans is a regular file.
EnsureDirectory ==
    /\ pc = "output"
    /\ ~args.dry_run
    /\ phases' = Append(phases, "ensure_directory")
    /\ IF env.plans.kind = "file"
       THEN Finish(1, "crash") /\ UNCHANGED <<plans_made, idx>>
       ELSE /\ plans_made' = TRUE
            /\ idx' = 1
            /\ pc' = "write"
            /\ UNCHANGED <<exit_code, outcome>>
    /\ UNCHANGED <<args, env, agents_template, explicit_replacements, inferred,
                   replacements, plan, missing_agents_tokens, contents,
                   rendered_files, unresolved_by_file, written, would_lines>>

\* Lines 447-449: path.write_text(contents) for the next rendered file.
WriteFile ==
    /\ pc = "write"
    /\ phases' = Append(phases, "write")
    /\ written' = Append(written, rendered_files[idx])
    /\ idx' = idx + 1
    /\ pc' = IF idx < Len(rendered_files) THEN "write" ELSE "report"
    /\ UNCHANGED <<args, env, agents_template, explicit_replacements, inferred,
                   replacements, plan, missing_agents_tokens, contents,
                   rendered_files, unresolved_by_file, plans_made, would_lines,
                   outcome, exit_code>>

\* Line 448: write_text raises OSError, which nothing catches; the files
\* written before it stay on disk.
WriteFileFails ==
    /\ pc = "write"
    /\ phases' = Append(phases, "write")
    /\ Finish(1, "crash")
    /\ UNCHANGED <<args, env, agents_template, explicit_replacements, inferred,
                   replacements, plan, missing_agents_tokens, idx, contents,
                   rendered_files, unresolved_by_file, written, plans_made,
                   would_lines>>

\* Lines 452-460: the closing report and 'return 0'.
Report ==
    /\ pc = "report"
    /\ phases' = Append(phases, "report")
    /\ Finish(0, IF args.dry_run THEN "dry_run" ELSE "installed")
    /\ UNCHANGED <<args, env, agents_template, explicit_replacements, inferred,
                   replacements, plan, missing_agents_tokens, idx, contents,
                   rendered_files, unresolved_by_file, written, plans_made,
                   would_lines>>

Next ==
    \/ ParseArgs
    \/ FetchPrimary
    \/ FetchPrimaryFails
    \/ Infer
    \/ Plan
    \/ InferOnlyStop
    \/ MandatoryGate
    \/ OverwriteGate
    \/ UsePrimary
    \/ FetchRemaining
    \/ FetchRemainingFails
    \/ Render
    \/ DryRun
    \/ EnsureDirectory
    \/ WriteFile
    \/ WriteFileFails
    \/ Report

Spec == Init /\ [][Next]_vars

\* The command line of a run that reached inference.
InferArgs(language, workflow) ==
    [target_ok |-> TRUE, set |-> <<>>, language |-> language,
     workflow |-> workflow, force |-> FALSE, dry_run |-> FALSE,
     infer_only |-> FALSE]

\* Target directories for infer_replacements alone: a prior AGENTS.md against
\* plans/ and git; the manifests of the app-name and test-command chains; the
\* documents and marker files of the language, tracker and test-command chains.
InferInputs ==
    \/ \E a \in AgentsDocs, p \in PlansStates, g \in GitStates :
          /\ env = [Base EXCEPT !.agents = a, !.plans = p, !.git = g]
          /\ args = InferArgs("go", "linear")
    \/ \E a \in {NoAgents("absent"), PriorAgents}, d \in AppDocs,
          j \in PackageJsons, y \in Tomls("pyapp"), c \in Tomls("crate"),
          m \in GoMods, n \in {<<"repo">>, <<>>} :
          /\ env = [Base EXCEPT !.agents = a, !.appMd = d, !.packageJson = j,
                                !.pyproject = y, !.cargo = c, !.goMod = m,
                                !.targetName = n]
          /\ args = InferArgs("python", "linear")
    \/ \E a \in {NoAgents("absent"), PriorAgents}, l \in LanguageDocs,
          w \in WorkflowDocs, r \in BOOLEAN, t \in BOOLEAN, h \in BOOLEAN,
          k \in {[st |-> "absent", testTarget |-> FALSE],
                 [st |-> "ok", testTarget |-> TRUE]},
          m \in {[st |-> "absent", module |-> None],
                 [st |-> "unreadable", module |-> None]},
          lc \in Languages, wc \in Workflows :
          /\ env = [Base EXCEPT !.agents = a, !.languageMd = l, !.workflowMd = w,
                                !.requirementsTxt = r, !.pytestIni = t,
                                !.dotGithub = h, !.makefile = k, !.goMod = m]
          /\ args = InferArgs(lc, wc)

\* The run has fetched _AGENTS.md and is about to infer.
InitInfer ==
    /\ pc = "infer"
    /\ InferInputs
    /\ agents_template = Some(<<"LANGUAGE_NAME", " ", "APP_NAME">>)
    /\ explicit_replacements = <<>>
    /\ inferred = [raised |-> FALSE, values |-> <<>>]
    /\ replacements = <<>>
    /\ plan = <<>>
    /\ missing_agents_tokens = <<>>
    /\ idx = 1
    /\ contents = <<>>
    /\ rendered_files = <<>>
    /\ unresolved_by_file = <<>>
    /\ written = <<>>
    /\ plans_made = FALSE
    /\ would_lines = 0
    /\ phases = <<"parse_args", "fetch_primary">>
    /\ outcome = "running"
    /\ exit_code = -1

NextInfer == Infer

SpecInfer == InitInfer /\ [][NextInfer]_vars

-----------------------------------------------------------------------------
(* Properties of complete runs *)

Range(q) == {q[i] : i \in DOMAIN q}
Count(q, x) == Cardinality({i \in DOMAIN q : q[i] = x})

\* The final replacement map exists: inference returned and the --set pairs
\* were laid over its result.
MapBuilt == "infer" \in Range(phases) /\ ~inferred.raised

\* _AGENTS.md still holds a placeholder after every key of the final
\* replacement map was substituted.
PrimaryLeftover ==
    /\ MapBuilt
    /\ unresolved_tokens(Substitute(Val(agents_template), replacements)) # <<>>

\* C1 as stated: a primary template with a placeholder left after full
\* substitution ends the run with exit code 1 and nothing written, under
\* every combination of --force, --dry-run and --infer-only.
C1_LeftoverExitsOne ==
    (pc = "done" /\ PrimaryLeftover) => (exit_code = 1 /\ written = <<>>)

\* C1 amended: with a placeholder left in the primary template no destination
\* file is ever written; the finished run has exit code 1 unless --infer-only
\* is set, and exit code 0 when it is.
C1_LeftoverNeverWrites ==
    PrimaryLeftover =>
        /\ written = <<>>
        /\ pc = "done" => exit_code = IF args.infer_only THEN 0 ELSE 1

\* A run without --infer-only whose placeholders all had values, and which
\* the leftover placeholder in the rendered AGENTS.md ended.
C1_Witness ==
    /\ pc = "done"
    /\ PrimaryLeftover
    /\ outcome = "unresolved_agents"
    /\ args.force /\ args.dry_run

\* C2 as stated: an existing destination without --force ends the run with
\* exit code 1 and nothing written, whatever the other flags are.
C2_ExistingExitsOne ==
    (pc = "done" /\ ExistingDests(env, sources) # <<>> /\ ~args.force)
        => (exit_code = 1 /\ written = <<>> /\ ~plans_made)

\* C2 amended: an existing destination without --force leaves the target
\* directory untouched under all flags, and ends the run with exit code 1
\* unless --infer-only is set.
C2_ExistingNeverWrites ==
    (ExistingDests(env, sources) # <<>> /\ ~args.force) =>
        /\ written = <<>>
        /\ ~plans_made
        /\ (pc = "done" /\ ~args.infer_only) => exit_code = 1

\* The overwrite gate itself ended a run.
C2_Witness ==
    /\ pc = "done"
    /\ outcome = "destination_exists"
    /\ ExistingDests(env, sources) # <<>>
    /\ ~args.force
    /\ written = <<>>

\* The rendered AGENTS.md, if the loop produced it.
RenderedAgents ==
    IF rendered_files # <<>> /\ rendered_files[1][1] = "AGENTS.md"
    THEN Some(rendered_files[1][2])
    ELSE None

\* C3: a destination file is written only after all five templates were
\* obtained and rendered, the planner reported nothing missing, the rendered
\* AGENTS.md holds no placeholder and no destination existed or --force was
\* given; a run ended by a failed fetch has exit code 1 and wrote nothing.
C3_WritesOnlyAfterGates ==
    /\ written # <<>> =>
          /\ IsSome(agents_template)
          /\ Count(phases, "fetch_remaining") = Len(sources) - 1
          /\ {rendered_files[i][1] : i \in DOMAIN rendered_files} = Dests
          /\ "mandatory_gate" \in Range(phases)
          /\ missing_agents_tokens = <<>>
          /\ IsSome(RenderedAgents)
          /\ unresolved_tokens(Val(RenderedAgents)) = <<>>
          /\ "overwrite_gate" \in Range(phases)
          /\ (ExistingDests(env, sources) = <<>> \/ args.force)
    /\ outcome = "fetch_error" => (exit_code = 1 /\ written = <<>>)

\* All five files were written over existing ones.
C3_Witness ==
    /\ outcome = "installed"
    /\ Len(written) = Len(sources)
    /\ ExistingDests(env, sources) # <<>>

\* The value of the last --set item whose key is k.
RECURSIVE LastSetValue(_, _)
LastSetValue(items, k) ==
    IF ItemKey(items[Len(items)]) = <<k>>
    THEN ItemValue(items[Len(items)])
    ELSE LastSetValue(SubSeq(items, 1, Len(items) - 1), k)

SetKeys == {ItemKey(args.set[i])[1] : i \in DOMAIN args.set}

\* The value the planner printed for token k.
Planned(k) == plan[CHOOSE i \in DOMAIN plan : plan[i][1] = k][2]
PlannedTokens == {plan[i][1] : i \in DOMAIN plan}

\* C5 as stated: for every --set key the planner and the renderer use
\* exactly the (last) value given, whatever inference produced.
C5_ExactValueEverywhere ==
    "plan" \in Range(phases) =>
        \A k \in SetKeys :
            /\ DictHas(replacements, k)
            /\ DictGet(replacements, k) = LastSetValue(args.set, k)
            /\ k \in PlannedTokens => Planned(k) = LastSetValue(args.set, k)

\* C5 amended: the map the renderer substitutes from holds exactly the last
\* value given for every --set key; the planner uses that value with leading
\* and trailing blanks removed and reports the key missing when nothing is
\* left.
C5_SetWinsPlannerStrips ==
    "plan" \in Range(phases) =>
        \A k \in SetKeys :
            /\ DictHas(replacements, k)
            /\ DictGet(replacements, k) = LastSetValue(args.set, k)
            /\ k \in PlannedTokens =>
                  /\ Planned(k) = Strip(LastSetValue(args.set, k))
                  /\ k \in Range(missing_agents_tokens)
                        <=> Strip(LastSetValue(args.set, k)) = <<>>

\* APP_NAME was inferred, given twice with --set, and planned.
C5_Witness ==
    /\ outcome = "installed"
    /\ Len(args.set) = 2
    /\ SetKeys = {"APP_NAME"}
    /\ args.set[1] # args.set[2]
    /\ DictHas(inferred.values, "APP_NAME")
    /\ DictGet(inferred.values, "APP_NAME") # DictGet(replacements, "APP_NAME")
    /\ "APP_NAME" \in PlannedTokens

\* C6 as stated: no key of the final replacement map has an empty or
\* whitespace-only value.
C6_NoBlankValue ==
    MapBuilt => \A i \in DOMAIN replacements : Strip(replacements[i][2]) # <<>>

\* The ways main() itself reports an error and returns 1.
GatingErrors == {"bad_target", "bad_set", "fetch_error", "missing_tokens",
                 "destination_exists", "unresolved_agents"}

\* C8 as stated: a run with --dry-run or --infer-only writes nothing, creates
\* no plans directory and, unless a gating error ended it, has exit code 0; a
\* --dry-run run that passes every gate prints five "Would" lines.
C8_PreviewNeverFails ==
    (args.dry_run \/ args.infer_only) =>
        /\ written = <<>>
        /\ ~plans_made
        /\ pc = "done" => (exit_code = 0 \/ outcome \in GatingErrors)
        /\ outcome = "dry_run" => would_lines = Len(sources)

\* Which phase may directly follow which, as main() is written.
CodeFollows(a, b) ==
    CASE a = "parse_args" -> b = "fetch_primary"
      [] a = "fetch_primary" -> b = "infer"
      [] a = "infer" -> b = "plan"
      [] a = "plan" -> b \in {"infer_only_stop", "mandatory_gate"}
      [] a = "mandatory_gate" -> b = "overwrite_gate"
      [] a = "overwrite_gate" -> b = "render"
      [] a = "render" -> b \in {"fetch_remaining", "dry_run_report", "ensure_directory"}
      [] a = "fetch_remaining" -> b = "render"
      [] a = "dry_run_report" -> b = "report"
      [] a = "ensure_directory" -> b = "write"
      [] a = "write" -> b \in {"write", "report"}
      [] OTHER -> FALSE

\* The same relation for the order the state machine of the specification
\* gives: the mandatory gate before the infer-only stop, the overwrite gate
\* after fetching and rendering, the plans directory after the writes.
StatedFollows(a, b) ==
    CASE a = "parse_args" -> b = "fetch_primary"
      [] a = "fetch_primary" -> b = "infer"
      [] a = "infer" -> b = "plan"
      [] a = "plan" -> b = "mandatory_gate"
      [] a = "mandatory_gate" -> b \in {"infer_only_stop", "fetch_remaining", "render"}
      [] a = "fetch_remaining" -> b \in {"fetch_remaining", "render"}
      [] a = "render" -> b \in {"fetch_remaining", "render", "overwrite_gate"}
      [] a = "overwrite_gate" -> b \in {"dry_run_report", "write"}
      [] a = "dry_run_report" -> b = "report"
      [] a = "write" -> b \in {"write", "ensure_directory"}
      [] a = "ensure_directory" -> b = "report"
      [] OTHER -> FALSE

\* C9 as stated: the phases of every run follow the stated order; the
\* overwrite gate comes after all templates were fetched and rendered and the
\* plans directory after all destination files were written.
C9_StatedOrder ==
    /\ \A i \in 1..(Len(phases) - 1) : StatedFollows(phases[i], phases[i + 1])
    /\ "overwrite_gate" \in Range(phases) => Count(phases, "render") = Len(sources)
    /\ "ensure_directory" \in Range(phases) => Len(written) = Len(sources)

\* C9 amended: parse arguments, fetch the primary template, infer, plan,
\* infer-only stop, mandatory-token gate, overwrite gate, fetch and render
\* template by template, dry-run stop, ensure the plans directory, write all
\* files, report.  The mandatory gate is not evaluated in an --infer-only
\* run, the overwrite gate is evaluated before any remaining template is
\* fetched or rendered, and the plans directory is made before any
\* destination file is written.
C9_CodeOrder ==
    /\ phases # <<>> => phases[1] = "parse_args"
    /\ \A i \in 1..(Len(phases) - 1) : CodeFollows(phases[i], phases[i + 1])
    /\ args.infer_only => "mandatory_gate" \notin Range(phases)
    /\ "overwrite_gate" \notin Range(phases) =>
          ("render" \notin Range(phases) /\ "fetch_remaining" \notin Range(phases))
    /\ written # <<>> => plans_made

\* A run that went through every phase of an installation.
C9_Witness ==
    /\ outcome = "installed"
    /\ Count(phases, "write") = Len(sources)
    /\ Count(phases, "fetch_remaining") = Len(sources) - 1
    /\ phases[Len(phases)] = "report"

-----------------------------------------------------------------------------
(* Properties of infer_replacements *)

InferDone == pc # "infer" /\ "infer" \in Range(phases)

Existing == infer_from_existing_agents(env)

\* The value the manifest, document or git based extractor yields for a token.
ExtractorValue(token) ==
    CASE token = "APP_NAME" ->
             LET r == infer_app_name(env)
             IN  IF ~r.raised /\ IsSome(r.val) /\ Val(r.val) # <<>> THEN r.val ELSE None
      [] token = "LANGUAGE_NAME" -> Some(infer_language_name(env, args.language))
      [] token = "TRACKER_NAME" -> Some(infer_tracker_name(env, args.workflow))
      [] token = "TEST_COMMAND" ->
             LET r == infer_test_command(env, args.language)
             IN  IF ~r.raised /\ IsSome(r.val) /\ Val(r.val) # <<>> THEN r.val ELSE None
      [] OTHER ->
             IF DictHas(infer_ids(env), token)
             THEN Some(DictGet(infer_ids(env), token))
             ELSE None

NameTokens == {"APP_NAME", "LANGUAGE_NAME", "TRACKER_NAME", "TEST_COMMAND"}
IdTokens == {"EPIC_ID", "TRACKER_ID"}

\* C4 as stated: for each of the six tokens, when the prior AGENTS.md and the
\* extractor both yield a value, the inferred map holds the extractor's.
C4_ExtractorAlwaysWins ==
    (InferDone /\ ~inferred.raised) =>
        \A t \in NameTokens \cup IdTokens :
            (DictHas(Existing, t) /\ IsSome(ExtractorValue(t)))
                => DictGet(inferred.values, t) = Val(ExtractorValue(t))

\* C4 amended: when both yield a value, the inferred map holds the
\* extractor's value for EPIC_ID and TRACKER_ID, and the value parsed from the
\* prior AGENTS.md for APP_NAME, LANGUAGE_NAME, TRACKER_NAME and TEST_COMMAND.
C4_PerFieldPrecedence ==
    (InferDone /\ ~inferred.raised) =>
        /\ \A t \in IdTokens :
              (DictHas(Existing, t) /\ IsSome(ExtractorValue(t)))
                  => DictGet(inferred.values, t) = Val(ExtractorValue(t))
        /\ \A t \in NameTokens :
              (DictHas(Existing, t) /\ IsSome(ExtractorValue(t)))
                  => DictGet(inferred.values, t) = DictGet(Existing, t)

\* The prior AGENTS.md and the extractors disagree on a name and on an id.
C4_Witness ==
    /\ InferDone /\ ~inferred.raised
    /\ DictHas(Existing, "APP_NAME")
    /\ IsSome(ExtractorValue("APP_NAME"))
    /\ DictGet(Existing, "APP_NAME") # Val(ExtractorValue("APP_NAME"))
    /\ DictHas(Existing, "EPIC_ID")
    /\ IsSome(ExtractorValue("EPIC_ID"))
    /\ DictGet(Existing, "EPIC_ID") # Val(ExtractorValue("EPIC_ID"))

\* C7 as stated: whatever state the optional artifacts are in,
\* infer_replacements returns a map and the run does not end in inference.
C7_InferenceNeverRaises ==
    InferDone => (~inferred.raised /\ outcome # "crash")

Resolved(token) ==
    IF DictHas(inferred.values, token)
    THEN Some(DictGet(inferred.values, token)[1])
    ELSE None

PlanTickets ==
    IF env.plans.kind = "dir"
    THEN SelectSeq(env.plans.stems, LAMBDA s : s \in TicketAtoms)
    ELSE <<>>

BranchTicket == IF env.git.rc = "ok" THEN env.git.branch ELSE None

\* C10 as stated: EPIC_ID and TRACKER_ID both come from the first source
\* with a ticket ID: a plans/ file stem, else the branch name, else the prior
\* AGENTS.md; with a ticket stem T under plans/ both are T.
C10_BothFromFirstSource ==
    (InferDone /\ ~inferred.raised) =>
        LET first == IF PlanTickets # <<>> THEN Some(PlanTickets[1])
                     ELSE IF IsSome(BranchTicket) THEN BranchTicket
                     ELSE IF ReadText(env.agents) THEN env.agents.first
                     ELSE None
        IN  IsSome(first) => (Resolved("EPIC_ID") = first /\ Resolved("TRACKER_ID") = first)

\* C10 amended: EPIC_ID is the first plans/ stem, in sorted order, that is a
\* ticket ID, else the ticket in the branch name, else the ID of the
\* plans/<ID>.md reference in the prior AGENTS.md.  TRACKER_ID is the ticket
\* in the branch name, else the first ticket ID in the prior AGENTS.md; the
\* plans/ directory does not affect it.
C10_EpicFromPlansTrackerFromBranch ==
    (InferDone /\ ~inferred.raised) =>
        /\ Resolved("EPIC_ID") =
              IF PlanTickets # <<>> THEN Some(PlanTickets[1])
              ELSE IF IsSome(BranchTicket) THEN BranchTicket
              ELSE IF ReadText(env.agents) THEN env.agents.epic
              ELSE None
        /\ Resolved("TRACKER_ID") =
              IF IsSome(BranchTicket) THEN BranchTicket
              ELSE IF ReadText(env.agents) /\ IsSome(env.agents.first)
              THEN env.agents.first
              ELSE None

\* Two ticket stems under plans/, another ticket in the branch name and
\* others again in the prior AGENTS.md.
C10_Witness ==
    /\ InferDone /\ ~inferred.raised
    /\ Len(PlanTickets) = 2
    /\ BranchTicket = Some("ABC-1")
    /\ env.agents.tid = Some("XYZ-2")
    /\ Resolved("EPIC_ID") = Some("DEF-3")
    /\ Resolved("TRACKER_ID") = Some("ABC-1")

====
